---- MODULE Spec2Model ----
(***************************************************************************)
(* A model of the inbox analyser of src/email_bot.py: the extraction of    *)
(* one record from one message (date normalisation, body text, due date,   *)
(* priority) and fetch_messages, which fetches every message of the        *)
(* mailbox, builds the records and orders them.                            *)
(*                                                                         *)
(* Texts are sequences of tokens, dates written in a text are records      *)
(* giving the grammar they are written in; a Python exception is a result  *)
(* whose field raised names it ("" when nothing is raised).                *)
(***************************************************************************)
EXTENDS Integers, Sequences, FiniteSets

VARIABLES
    mailbox,       \* the server's messages, in sequence-number order
    limit,         \* fetch_messages' parameter (0 models None)
    pc,            \* where fetch_messages is
    message_uids,  \* the ids still to be fetched
    records,       \* fetch_messages' local list, then the list it returns
    error,         \* the exception that ended the run ("" when none)
    fetched,       \* history: per id fetched, what happened to it
    arg,           \* the input of a call of one of the extraction functions
    ret,           \* its result
    pcall,         \* "idle", "call" or "return"
    bs4            \* whether `from bs4 import BeautifulSoup` succeeds

vars == <<mailbox, limit, pc, message_uids, records, error, fetched, arg, ret, pcall, bs4>>

fetchVars == <<mailbox, limit, pc, message_uids, records, error, fetched>>

callVars == <<arg, ret, pcall, bs4>>

----------------------------------------------------------------------------
(* Bounds of the model *)

\* the wall-clock readings a date text may show are 0..MaxWall
MaxWall == 3

\* the tokens of a body text in the due-date calls
MaxBody == 2

----------------------------------------------------------------------------
(* datetime values *)

\* the offset of the zone astimezone() converts to (the machine's zone)
LocalOffset == 1

\* the UTC offsets a date text may name
Offsets == {0, 1, 2}

Walls == 0..MaxWall

\* Optional[datetime]: None, a naive datetime or an aware one (wall time and
\* UTC offset; its instant is wall - off)
None == [some |-> FALSE, aware |-> FALSE, off |-> 0, wall |-> 0]

Naive(w) == [some |-> TRUE, aware |-> FALSE, off |-> 0, wall |-> w]

Aware(w, o) == [some |-> TRUE, aware |-> TRUE, off |-> o, wall |-> w]

\* datetime.astimezone(): the same instant in the local zone
astimezone(dt) == Aware(dt.wall - dt.off + LocalOffset, LocalOffset)

----------------------------------------------------------------------------
(* Date texts.  A header value or a piece of text handed to a date parser:  *)
(* absent (None), the empty string, a date in the RFC-822 grammar, a date   *)
(* only the free-text grammar reads ("free"), a text no grammar reads       *)
(* ("junk"), or one whose numbers overflow ("overflow").                    *)

DateForms == {"rfc822", "free"}

NoDate(form) == [form |-> form, hasZone |-> FALSE, off |-> 0, wall |-> 0]

DateTexts ==
    {NoDate(f) : f \in {"absent", "empty", "junk", "overflow"}}
    \cup [form : DateForms, hasZone : {FALSE}, off : {0}, wall : Walls]
    \cup [form : DateForms, hasZone : {TRUE}, off : Offsets, wall : Walls]

\* the datetime a date text denotes
Denoted(value) ==
    IF value.hasZone THEN Aware(value.wall, value.off) ELSE Naive(value.wall)

\* email.utils.parsedate_to_datetime: raises ValueError unless RFC-822
parsedate_to_datetime(value) ==
    IF value.form = "rfc822"
        THEN [raised |-> "", val |-> Denoted(value)]
        ELSE [raised |-> "ValueError", val |-> None]

\* dateutil.parser.parse: reads both grammars, raises ParserError (a
\* ValueError) on junk and OverflowError on overflowing numbers
dateparser_parse(value) ==
    CASE value.form \in DateForms -> [raised |-> "", val |-> Denoted(value)]
      [] value.form = "overflow" -> [raised |-> "OverflowError", val |-> None]
      [] OTHER -> [raised |-> "ValueError", val |-> None]

\* EmailInboxAnalyzer._parse_date_header
_parse_date_header(value) ==
    IF value.form \in {"absent", "empty"} THEN None
    ELSE LET r == parsedate_to_datetime(value) IN
         IF r.raised = ""
             THEN IF ~r.val.aware THEN r.val ELSE astimezone(r.val)
             ELSE LET f == dateparser_parse(value) IN
                  IF f.raised = "" THEN f.val ELSE None

\* EmailInboxAnalyzer._safe_parse_datetime (value is a non-empty str)
_safe_parse_datetime(value) ==
    LET f == dateparser_parse(value) IN
    IF f.raised # "" THEN None
    ELSE IF ~f.val.aware THEN f.val ELSE astimezone(f.val)

----------------------------------------------------------------------------
(* Texts.  A str is a sequence of tokens: white space ("sp"), an HTML tag   *)
(* ("tag"), a word or phrase ("word", p its characters), or a date: an      *)
(* ISO-style or day/month/year date, bare ("iso", "dmy") or preceded by a   *)
(* due-date keyword ("kwiso", "kwdmy"); d is the date text of its digits.   *)

Sp == [k |-> "sp", p |-> "", d |-> NoDate("absent")]

Tag == [k |-> "tag", p |-> "", d |-> NoDate("absent")]

Word(p) == [k |-> "word", p |-> p, d |-> NoDate("absent")]

DateTok(k, d) == [k |-> k, p |-> "", d |-> d]

\* the digits of a date in a text: a date the free-text grammar reads, or
\* digits it rejects (2024-13-45, 99/99/99)
Digits == {NoDate("junk")} \cup [form : {"free"}, hasZone : {FALSE}, off : {0}, wall : Walls]

\* str.lower() of a phrase
LowerPhrase(p) ==
    CASE p = "URGENTE" -> "urgente"
      [] p = "Sin Prisa" -> "sin prisa"
      [] p = "High" -> "high"
      [] p = "LOW" -> "low"
      [] p = "Por Favor" -> "por favor"
      [] OTHER -> p

\* str.lower() of a text
lower(text) == [i \in 1..Len(text) |-> [text[i] EXCEPT !.p = LowerPhrase(@)]]

\* keyword in phrase, for the phrases and keywords of the model
InPhrase(keyword, p) ==
    \/ p = keyword
    \/ <<keyword, p>> \in {<<"prioridad", "baja prioridad">>,
                           <<"accion", "accion requerida">>,
                           <<"1", "15">>, <<"5", "15">>}

\* keyword in text
In(keyword, text) ==
    \E i \in 1..Len(text) : text[i].k = "word" /\ InPhrase(keyword, text[i].p)

RECURSIVE lstrip(_)
lstrip(text) ==
    IF text # <<>> /\ Head(text).k = "sp" THEN lstrip(Tail(text)) ELSE text

RECURSIVE rstrip(_)
rstrip(text) ==
    IF text # <<>> /\ text[Len(text)].k = "sp"
        THEN rstrip(SubSeq(text, 1, Len(text) - 1))
        ELSE text

\* str.strip()
strip(text) == rstrip(lstrip(text))

\* a + "\n" + b
JoinLines(a, b) == a \o <<Sp>> \o b

----------------------------------------------------------------------------
(* Messages, as BytesParser(policy=policy.default) returns them.  A header  *)
(* holding text is absent (get returns None or the default) or present      *)
(* with its decoded value; a header holding a date is a date text.  parts   *)
(* is what walk() yields after the container itself.                        *)

NoHeader == [present |-> FALSE, text |-> <<>>]

Header(text) == [present |-> TRUE, text |-> text]

Part(ctype, attachment, charsetOk, content) ==
    [ctype |-> ctype, attachment |-> attachment, charsetOk |-> charsetOk,
     content |-> content]

\* a single-part text/plain message with no header and the given body
PlainMessage(content) ==
    [Subject |-> NoHeader, From |-> NoHeader, Date |-> NoDate("absent"),
     ReplyBy |-> NoDate("absent"), XResponseDue |-> NoDate("absent"),
     XPriority |-> NoHeader, Priority |-> NoHeader, Importance |-> NoHeader,
     multipart |-> FALSE, ctype |-> "text/plain", charsetOk |-> TRUE,
     content |-> content, parts |-> <<>>]

\* message.get(name, default) of a text header
Get(header, default) == IF header.present THEN header.text ELSE default

\* bool(message.get(name)) of a text header
Truthy(header) == header.present /\ header.text # <<>>

\* bool(message.get(name)) of a date header
TruthyDate(value) == value.form \notin {"absent", "empty"}

\* EmailInboxAnalyzer._decode_header: under policy.default the value is
\* already decoded, decode_header yields it as one str part
_decode_header(value) == strip(value)

----------------------------------------------------------------------------
(* The body text *)

\* Message.get_content() of a text part: raises LookupError on a charset
\* Python does not know
get_content(part) ==
    IF part.charsetOk
        THEN [raised |-> "", val |-> part.content]
        ELSE [raised |-> "LookupError", val |-> <<>>]

\* the text nodes of an HTML document: its runs of text between tags
RECURSIVE TextNodes(_, _)
TextNodes(html, node) ==
    IF html = <<>> THEN <<node>>
    ELSE IF Head(html).k = "tag" THEN <<node>> \o TextNodes(Tail(html), <<>>)
    ELSE TextNodes(Tail(html), Append(node, Head(html)))

RECURSIVE JoinNodes(_)
JoinNodes(nodes) ==
    IF nodes = <<>> THEN <<>>
    ELSE LET s == strip(Head(nodes))
             r == JoinNodes(Tail(nodes)) IN
         IF s = <<>> THEN r
         ELSE IF r = <<>> THEN s
         ELSE s \o <<Sp>> \o r

\* BeautifulSoup(html, "html.parser").get_text(" ", strip=True): every text
\* node stripped, the empty ones dropped, the rest joined by one space
get_text(html) == JoinNodes(TextNodes(html, <<>>))

\* the first text/plain part that is no attachment (0 when none)
RECURSIVE FirstPlain(_, _)
FirstPlain(parts, i) ==
    IF i > Len(parts) THEN 0
    ELSE IF parts[i].ctype = "text/plain" /\ ~parts[i].attachment THEN i
    ELSE FirstPlain(parts, i + 1)

\* the second loop of _extract_text: the first text/html part that is read
\* and parsed without an exception
RECURSIVE FirstHtmlText(_, _)
FirstHtmlText(parts, i) ==
    IF i > Len(parts) THEN <<>>
    ELSE IF parts[i].ctype = "text/html" /\ bs4 /\ get_content(parts[i]).raised = ""
        THEN get_text(get_content(parts[i]).val)
    ELSE FirstHtmlText(parts, i + 1)

\* EmailInboxAnalyzer._extract_text
_extract_text(message) ==
    IF message.multipart
        THEN LET i == FirstPlain(message.parts, 1) IN
             IF i # 0
                 THEN LET c == get_content(message.parts[i]) IN
                      [raised |-> c.raised, val |-> strip(c.val)]
                 ELSE [raised |-> "", val |-> FirstHtmlText(message.parts, 1)]
        ELSE LET c == get_content(message) IN
             [raised |-> c.raised, val |-> strip(c.val)]

----------------------------------------------------------------------------
(* The due date *)

\* whether the k-th pattern of _extract_due_date matches at a token
PatternAt(k, tok) ==
    CASE k = 1 -> tok.k = "kwiso"
      [] k = 2 -> tok.k = "kwdmy"
      [] k = 3 -> tok.k \in {"kwiso", "iso"}
      [] k = 4 -> tok.k \in {"kwdmy", "dmy"}

\* re.search(patterns[k], body_text).group(1): the digits of the leftmost
\* match, NoDate("absent") when there is no match
RECURSIVE re_search(_, _, _)
re_search(k, body_text, i) ==
    IF i > Len(body_text) THEN NoDate("absent")
    ELSE IF PatternAt(k, body_text[i]) THEN body_text[i].d
    ELSE re_search(k, body_text, i + 1)

\* the loop as it would be if the first pattern that matches ended it,
\* whether or not its digits normalize
RECURSIVE ScanPatternsStopAtMatch(_, _)
ScanPatternsStopAtMatch(k, body_text) ==
    IF k > 4 THEN None
    ELSE LET m == re_search(k, body_text, 1) IN
         IF m.form # "absent" THEN _safe_parse_datetime(m)
         ELSE ScanPatternsStopAtMatch(k + 1, body_text)

\* the loop over the patterns, from the k-th on
RECURSIVE ScanPatterns(_, _)
ScanPatterns(k, body_text) ==
    IF k > 4 THEN None
    ELSE LET m == re_search(k, body_text, 1)
             parsed == _safe_parse_datetime(m) IN
         IF m.form # "absent" /\ parsed.some THEN parsed
         ELSE ScanPatterns(k + 1, body_text)

\* EmailInboxAnalyzer._extract_due_date
_extract_due_date(message, body_text) ==
    LET header_due == IF TruthyDate(message.ReplyBy)
                          THEN message.ReplyBy
                          ELSE message.XResponseDue
        parsed == _safe_parse_datetime(header_due) IN
    IF TruthyDate(header_due) /\ parsed.some THEN parsed
    ELSE ScanPatterns(1, body_text)

----------------------------------------------------------------------------
(* Priority and pending task *)

high_keywords == {"urgente", "asap", "importante", "prioridad", "accion requerida"}

low_keywords == {"sin prisa", "cuando puedas", "baja prioridad"}

task_keywords ==
    {"tarea", "pendiente", "por favor", "se requiere", "favor de", "accion",
     "acción", "follow up", "recordatorio"}

\* the header the or-chain of _extract_priority yields, lowercased
priority_header(message) ==
    lower(IF Truthy(message.XPriority) THEN message.XPriority.text
          ELSE IF Truthy(message.Priority) THEN message.Priority.text
          ELSE IF Truthy(message.Importance) THEN message.Importance.text
          ELSE <<>>)

\* the keyword scan of _extract_priority
KeywordPriority(message, body_text) ==
    LET subject == _decode_header(Get(message.Subject, <<>>))
        text_to_check == lower(JoinLines(subject, body_text)) IN
    IF \E keyword \in high_keywords : In(keyword, text_to_check) THEN "Alta"
    ELSE IF \E keyword \in low_keywords : In(keyword, text_to_check) THEN "Baja"
    ELSE "Normal"

\* _extract_priority as it would be if the keywords were scanned before the
\* headers
_extract_priority_keywords_first(message, body_text) ==
    LET h == priority_header(message)
        k == KeywordPriority(message, body_text) IN
    IF k # "Normal" THEN k
    ELSE IF In("1", h) \/ In("high", h) \/ In("urgent", h) THEN "Alta"
    ELSE IF In("5", h) \/ In("low", h) THEN "Baja"
    ELSE "Normal"

\* EmailInboxAnalyzer._extract_priority
_extract_priority(message, body_text) ==
    LET h == priority_header(message) IN
    IF In("1", h) \/ In("high", h) \/ In("urgent", h) THEN "Alta"
    ELSE IF In("5", h) \/ In("low", h) THEN "Baja"
    ELSE KeywordPriority(message, body_text)

\* EmailInboxAnalyzer._has_pending_task
_has_pending_task(body_text, subject) ==
    LET hay_solicitud == \E keyword \in task_keywords : In(keyword, lower(body_text))
        hay_en_asunto == \E keyword \in task_keywords : In(keyword, lower(subject)) IN
    hay_solicitud \/ hay_en_asunto

----------------------------------------------------------------------------
(* fetch_messages is not running while one extraction function is called *)

IdleFetch ==
    /\ mailbox = <<>>
    /\ limit = 0
    /\ pc = "idle"
    /\ message_uids = <<>>
    /\ records = <<>>
    /\ error = ""
    /\ fetched = <<>>

----------------------------------------------------------------------------
(* The calls of the date normalisers: _parse_date_header on the value of a  *)
(* Date header, _safe_parse_datetime on a non-empty text                    *)

InitDate ==
    /\ IdleFetch
    /\ arg \in DateTexts
    /\ ret = None
    /\ pcall = "call"
    /\ bs4 = TRUE

CallParseDateHeader ==
    /\ pcall = "call"
    /\ ret' = _parse_date_header(arg)
    /\ pcall' = "_parse_date_header"
    /\ UNCHANGED <<arg, bs4, fetchVars>>

CallSafeParseDatetime ==
    /\ pcall = "call"
    /\ TruthyDate(arg)
    /\ ret' = _safe_parse_datetime(arg)
    /\ pcall' = "_safe_parse_datetime"
    /\ UNCHANGED <<arg, bs4, fetchVars>>

NextDate == CallParseDateHeader \/ CallSafeParseDatetime

SpecDate == InitDate /\ [][NextDate]_vars

\* what the claim expects of a parsed date: local zone when aware
Localized(dt) == IF dt.aware THEN astimezone(dt) ELSE dt

\* C9: _parse_date_header tries the RFC-822 grammar first and the free-text
\* grammar only when it fails; on whichever succeeds an aware result is
\* converted to the local zone and a naive one returned as it is; an
\* unparseable input gives None (no exception leaves the function)
C9_ParseDateHeaderLocalizes ==
    pcall = "_parse_date_header" =>
        LET rfc == parsedate_to_datetime(arg)
            free == dateparser_parse(arg) IN
        ret = IF ~TruthyDate(arg) THEN None
              ELSE IF rfc.raised = "" THEN Localized(rfc.val)
              ELSE IF free.raised = "" THEN Localized(free.val)
              ELSE None

----------------------------------------------------------------------------
(* The calls of _extract_due_date *)

DueHeaders ==
    {NoDate("absent"), NoDate("empty"), NoDate("junk"),
     [form |-> "free", hasZone |-> FALSE, off |-> 0, wall |-> 1],
     [form |-> "rfc822", hasZone |-> TRUE, off |-> 2, wall |-> MaxWall]}

DueDigits == {d \in Digits : d.wall \in {0, MaxWall}}

DueTokens ==
    {Word("hola")} \cup {DateTok(k, d) : k \in {"kwiso", "kwdmy", "iso", "dmy"}, d \in DueDigits}

RECURSIVE SeqsUpTo(_, _)
SeqsUpTo(S, n) ==
    IF n = 0 THEN {<<>>}
    ELSE LET shorter == SeqsUpTo(S, n - 1) IN
         shorter \cup {Append(s, x) : s \in shorter, x \in S}

InitDue ==
    /\ IdleFetch
    /\ \E r \in DueHeaders, x \in DueHeaders, b \in SeqsUpTo(DueTokens, MaxBody) :
          arg = [message |-> [PlainMessage(b) EXCEPT !.ReplyBy = r, !.XResponseDue = x],
                 body_text |-> b]
    /\ ret = None
    /\ pcall = "call"
    /\ bs4 = TRUE

CallExtractDueDate ==
    /\ pcall = "call"
    /\ ret' = _extract_due_date(arg.message, arg.body_text)
    /\ pcall' = "_extract_due_date"
    /\ UNCHANGED <<arg, bs4, fetchVars>>

NextDue == CallExtractDueDate

SpecDue == InitDue /\ [][NextDue]_vars

\* whether a due-date header is present and normalizes to a date
Normalizes(value) == TruthyDate(value) /\ _safe_parse_datetime(value).some

\* C3: Reply-By is tried first and then X-Response-Due, each passed to the
\* normalizer: with Reply-By present but not normalizing and X-Response-Due
\* present and normalizing, the due date is the one of X-Response-Due
C3_ResponseDueAfterReplyBy ==
    pcall = "_extract_due_date" =>
        LET m == arg.message IN
        /\ Normalizes(m.ReplyBy) => ret = _safe_parse_datetime(m.ReplyBy)
        /\ TruthyDate(m.ReplyBy) /\ ~Normalizes(m.ReplyBy) /\ Normalizes(m.XResponseDue)
               => ret = _safe_parse_datetime(m.XResponseDue)

\* the texts the k-th body pattern matches in a body, in order
PatternMatches(k, body_text) ==
    SelectSeq(body_text, LAMBDA tok : PatternAt(k, tok))

\* the k-th pattern yields a date: its leftmost match normalizes
Yields(k, body_text) ==
    /\ PatternMatches(k, body_text) # <<>>
    /\ _safe_parse_datetime(PatternMatches(k, body_text)[1].d).some

\* C4: when no due-date header yields a date the four body patterns are tried
\* in the order keyword+ISO, keyword+d/m/y, bare ISO, bare d/m/y; the result
\* is the date of the first pattern whose match normalizes, a match that does
\* not normalize counts as no match, and with no pattern yielding a date the
\* result is None
C4_BodyPatternCascade ==
    pcall = "_extract_due_date" =>
        LET m == arg.message
            b == arg.body_text IN
        ~Normalizes(m.ReplyBy) /\ ~Normalizes(m.XResponseDue) =>
            /\ \A k \in 1..4 :
                   Yields(k, b) /\ (\A j \in 1..(k - 1) : ~Yields(j, b))
                       => ret = _safe_parse_datetime(PatternMatches(k, b)[1].d)
            /\ (\A k \in 1..4 : ~Yields(k, b)) => ret = None

\* C4's case: the first pattern matched digits that do not normalize and a
\* later pattern gave the date
C4_Witness ==
    /\ pcall = "_extract_due_date"
    /\ ~Normalizes(arg.message.ReplyBy) /\ ~Normalizes(arg.message.XResponseDue)
    /\ PatternMatches(1, arg.body_text) # <<>>
    /\ ~Yields(1, arg.body_text) /\ ~Yields(2, arg.body_text) /\ ~Yields(3, arg.body_text)
    /\ Yields(4, arg.body_text)
    /\ ret.some

----------------------------------------------------------------------------
(* The calls of _extract_priority *)

PriorityHeaders ==
    {NoHeader, Header(<<>>)}
    \cup {Header(<<Word(p)>>) : p \in {"3", "1", "High", "urgent", "5", "LOW", "15"}}

PrioritySubjects ==
    {NoHeader} \cup {Header(<<Word(p)>>) : p \in {"hola", "URGENTE", "Sin Prisa"}}

PriorityBodies ==
    {<<>>} \cup {<<Word(p)>> : p \in {"hola", "asap", "cuando puedas", "baja prioridad"}}

InitPriority ==
    /\ IdleFetch
    /\ \E x \in PriorityHeaders, p \in PriorityHeaders, i \in PriorityHeaders,
          s \in PrioritySubjects, b \in PriorityBodies :
          arg = [message |-> [PlainMessage(b) EXCEPT !.XPriority = x, !.Priority = p,
                                                     !.Importance = i, !.Subject = s],
                 body_text |-> b]
    /\ ret = ""
    /\ pcall = "call"
    /\ bs4 = TRUE

CallExtractPriority ==
    /\ pcall = "call"
    /\ ret' = _extract_priority(arg.message, arg.body_text)
    /\ pcall' = "_extract_priority"
    /\ UNCHANGED <<arg, bs4, fetchVars>>

NextPriority == CallExtractPriority

SpecPriority == InitPriority /\ [][NextPriority]_vars

\* the first header present among X-Priority, Priority, Importance
FirstPresent(message) ==
    IF message.XPriority.present THEN message.XPriority
    ELSE IF message.Priority.present THEN message.Priority
    ELSE message.Importance

HasHighToken(header) ==
    \E t \in {"1", "high", "urgent"} : In(t, lower(header.text))

HasLowToken(header) ==
    \E t \in {"5", "low"} : In(t, lower(header.text))

\* the subject and body of a call hold a keyword of the set
TextHasKeyword(keywords) ==
    \E keyword \in keywords :
        \/ In(keyword, lower(Get(arg.message.Subject, <<>>)))
        \/ In(keyword, lower(arg.body_text))

\* C5: a decisive header short-circuits the keyword scan: a high-urgency
\* token in the first present priority header gives Alta whatever the
\* subject and body hold, a low-urgency token and no high one gives Baja
\* whatever they hold, and the keywords decide when no header is present
C5_HeaderShortCircuits ==
    pcall = "_extract_priority" =>
        LET h == FirstPresent(arg.message) IN
        /\ HasHighToken(h) => ret = "Alta"
        /\ HasLowToken(h) /\ ~HasHighToken(h) => ret = "Baja"
        /\ ~h.present =>
               ret = IF TextHasKeyword(high_keywords) THEN "Alta"
                     ELSE IF TextHasKeyword(low_keywords) THEN "Baja"
                     ELSE "Normal"

\* C5's case: a low-urgency header wins over a high-priority keyword
C5_Witness ==
    /\ pcall = "_extract_priority"
    /\ HasLowToken(FirstPresent(arg.message))
    /\ ~HasHighToken(FirstPresent(arg.message))
    /\ TextHasKeyword(high_keywords)
    /\ ret = "Baja"

----------------------------------------------------------------------------
(* The calls of _extract_text *)

\* the tokens of an HTML document or a plain text, up to MaxHtml of them
MaxHtml == 3

Contents == SeqsUpTo({Tag, Sp, Word("Hola"), Word("mundo")}, MaxHtml)

\* <b>Hola</b> mundo
HolaMundo == <<Tag, Word("Hola"), Tag, Sp, Word("mundo")>>

PartContents == {<<>>, <<Sp, Word("Hola")>>, HolaMundo}

TextParts ==
    {Part(c, a, ok, t) : c \in {"text/plain", "text/html", "application/pdf"},
                         a \in BOOLEAN, ok \in BOOLEAN, t \in PartContents}

Multipart(parts) ==
    [PlainMessage(<<>>) EXCEPT !.multipart = TRUE, !.ctype = "multipart/mixed",
                               !.parts = parts]

TextMessages ==
    {[PlainMessage(t) EXCEPT !.ctype = c, !.charsetOk = ok] :
        c \in {"text/plain", "text/html"}, ok \in BOOLEAN, t \in Contents \cup {HolaMundo}}
    \cup {Multipart(<<Part("text/html", FALSE, ok, t)>>) :
            ok \in BOOLEAN, t \in Contents \cup {HolaMundo}}
    \cup {Multipart(ps) : ps \in SeqsUpTo(TextParts, 2)}

InitText ==
    /\ IdleFetch
    /\ arg \in TextMessages
    /\ ret = [raised |-> "", val |-> <<>>]
    /\ pcall = "call"
    /\ bs4 \in BOOLEAN

CallExtractText ==
    /\ pcall = "call"
    /\ ret' = _extract_text(arg)
    /\ pcall' = "_extract_text"
    /\ UNCHANGED <<arg, bs4, fetchVars>>

NextText == CallExtractText

SpecText == InitText /\ [][NextText]_vars

\* the text of a document: its tokens that are neither tags nor white space
TextOf(content) == SelectSeq(content, LAMBDA tok : tok.k \notin {"tag", "sp"})

\* no tag, no white space at either end and no two white spaces in a row
TagFreeCollapsed(text) ==
    /\ \A i \in 1..Len(text) : text[i].k # "tag"
    /\ strip(text) = text
    /\ \A i \in 1..(Len(text) - 1) : ~(text[i].k = "sp" /\ text[i + 1].k = "sp")

\* the only content of the message is one HTML part it can read
HtmlOnly(message) ==
    \/ ~message.multipart /\ message.ctype = "text/html" /\ message.charsetOk
    \/ /\ message.multipart
       /\ Len(message.parts) = 1
       /\ message.parts[1].ctype = "text/html"
       /\ message.parts[1].charsetOk

HtmlOf(message) ==
    IF message.multipart THEN message.parts[1].content ELSE message.content

\* C8: of a message whose only content is an HTML part, a multipart container
\* holding it or a text/html message itself, _extract_text returns the text
\* of the part with the tags removed and the white space collapsed
C8_HtmlOnlyTagsRemoved ==
    pcall = "_extract_text" /\ bs4 /\ HtmlOnly(arg) =>
        /\ ret.raised = ""
        /\ TagFreeCollapsed(ret.val)
        /\ TextOf(ret.val) = TextOf(HtmlOf(arg))

\* the same of the multipart container alone, white space left aside: the
\* tags are removed and the text kept
HtmlPartTagsRemoved ==
    pcall = "_extract_text" /\ bs4 /\ HtmlOnly(arg) /\ arg.multipart =>
        /\ ret.raised = ""
        /\ \A i \in 1..Len(ret.val) : ret.val[i].k # "tag"
        /\ strip(ret.val) = ret.val
        /\ TextOf(ret.val) = TextOf(HtmlOf(arg))

\* <b>Hola</b> mundo in a multipart container gives "Hola mundo"
HolaMundoExample ==
    pcall = "_extract_text" /\ bs4 /\ arg = Multipart(<<Part("text/html", FALSE, TRUE, HolaMundo)>>)
        => ret.val = <<Word("Hola"), Sp, Word("mundo")>>

----------------------------------------------------------------------------
(* The mailbox and the IMAP server *)

\* the messages of a mailbox in the fetch_messages runs
MaxMsgs == 2

\* str.upper() of a flag
Upper(flag) ==
    CASE flag = "\\Seen" -> "\\SEEN"
      [] flag = "\\seen" -> "\\SEEN"
      [] flag = "\\Flagged" -> "\\FLAGGED"
      [] OTHER -> flag

\* the data items without PEEK
fetch_items_no_peek == "(BODY[] FLAGS)"

\* the data items line 115 asks the server for
fetch_items == "(BODY.PEEK[] FLAGS)"

\* the mailbox after UID FETCH of the items: BODY[] sets \Seen on the
\* message, BODY.PEEK[] does not (RFC 3501, 6.4.5)
AfterFetch(mb, uid, items) ==
    [i \in 1..Len(mb) |->
        IF mb[i].uid = uid /\ items = "(BODY[] FLAGS)"
            THEN [mb[i] EXCEPT !.flags = @ \cup {"\\Seen"}]
            ELSE mb[i]]

NoMetadata == [hasFlags |-> FALSE, flags |-> {}]

Response(status, data, metadata, content) ==
    [status |-> status, data |-> data, metadata |-> metadata, content |-> content]

\* what connection.uid("FETCH", uid, ...) may return: a status that is not
\* OK, OK with no data, OK with [None] when no message has the uid, or OK
\* with the tuple (metadata, content) of the message
UidFetchResponses(mb, uid) ==
    {Response("NO", "none", NoMetadata, PlainMessage(<<>>)),
     Response("OK", "empty", NoMetadata, PlainMessage(<<>>))}
    \cup (IF \E i \in 1..Len(mb) : mb[i].uid = uid
             THEN {Response("OK", "tuple", [hasFlags |-> TRUE, flags |-> mb[i].flags],
                            mb[i].message) : i \in {j \in 1..Len(mb) : mb[j].uid = uid}}
             ELSE {Response("OK", "none", NoMetadata, PlainMessage(<<>>))})

----------------------------------------------------------------------------
(* One record *)

\* EmailInboxAnalyzer._parse_flags
_parse_flags(metadata) == IF ~metadata.hasFlags THEN {} ELSE metadata.flags

\* EmailInboxAnalyzer._is_read
_is_read(flags) == \E flag \in flags : Upper(flag) = "\\SEEN"

EmailRecord(uid, subject, sender, date_received, due_date, priority, read_status, pending_task) ==
    [uid |-> uid, subject |-> subject, sender |-> sender,
     date_received |-> date_received, due_date |-> due_date, priority |-> priority,
     read_status |-> read_status, pending_task |-> pending_task]

NoRecord == EmailRecord(0, <<>>, <<>>, None, None, "", "", FALSE)

\* EmailInboxAnalyzer._fetch_single_message, given the server's response:
\* the exception it raises, whether it returns a record, and the record
_fetch_single_message(uid, response) ==
    IF response.status # "OK" \/ response.data = "empty"
        THEN [raised |-> "", some |-> FALSE, rec |-> NoRecord]
    ELSE IF response.data # "tuple"
        THEN [raised |-> "", some |-> FALSE, rec |-> NoRecord]
    ELSE LET message == response.content
             flags == _parse_flags(response.metadata)
             subject == _decode_header(Get(message.Subject, <<Word("(Sin asunto)")>>))
             sender == _decode_header(Get(message.From, <<Word("Desconocido")>>))
             date_received == _parse_date_header(message.Date)
             body_text == _extract_text(message) IN
         IF body_text.raised # ""
             THEN [raised |-> body_text.raised, some |-> FALSE, rec |-> NoRecord]
             ELSE [raised |-> "", some |-> TRUE,
                   rec |-> EmailRecord(
                       uid, subject, sender, date_received,
                       _extract_due_date(message, body_text.val),
                       _extract_priority(message, body_text.val),
                       IF _is_read(flags) THEN "Leído" ELSE "No leído",
                       _has_pending_task(body_text.val, subject))]

----------------------------------------------------------------------------
(* The order of the records *)

datetime_min == Naive(0)

\* the instant of a datetime (of a naive one: its wall time)
Instant(dt) == dt.wall - dt.off

\* EmailRecord.sort_key
sort_key(r) ==
    LET read_weight == IF r.read_status = "Leído" THEN 1 ELSE 0 IN
    <<read_weight, IF r.date_received.some THEN r.date_received ELSE datetime_min>>

\* a < b of two keys raises TypeError: the weights are equal and one
\* datetime is naive, the other aware
KeyRaises(a, b) == a[1] = b[1] /\ a[2].aware # b[2].aware

\* a < b of two keys that can be compared
KeyLess(a, b) == a[1] < b[1] \/ (a[1] = b[1] /\ Instant(a[2]) < Instant(b[2]))

Reverse(s) == [i \in 1..Len(s) |-> s[Len(s) + 1 - i]]

\* x put into an ascending list after every element that is not greater
RECURSIVE InsertSorted(_, _)
InsertSorted(x, s) ==
    IF s = <<>> THEN <<x>>
    ELSE IF KeyLess(sort_key(x), sort_key(Head(s))) THEN <<x>> \o s
    ELSE <<Head(s)>> \o InsertSorted(x, Tail(s))

\* a stable ascending sort
RECURSIVE StableSort(_)
StableSort(s) ==
    IF s = <<>> THEN <<>>
    ELSE InsertSorted(s[Len(s)], StableSort(SubSeq(s, 1, Len(s) - 1)))

\* the list a forgotten reverse=True would give
records_sort_ascending(rs) ==
    [raised |-> IF \E i, j \in 1..Len(rs) : KeyRaises(sort_key(rs[i]), sort_key(rs[j]))
                    THEN "TypeError" ELSE "",
     val |-> StableSort(rs)]

\* records.sort(key=..., reverse=True).  list.sort with reverse=True
\* reverses the list, sorts it ascending and stable, and reverses it again;
\* a comparison sort has to compare two keys of equal weight whose datetimes
\* are one naive and one aware, which raises TypeError
records_sort(rs) ==
    [raised |-> IF \E i, j \in 1..Len(rs) : KeyRaises(sort_key(rs[i]), sort_key(rs[j]))
                    THEN "TypeError" ELSE "",
     val |-> Reverse(StableSort(Reverse(rs)))]

----------------------------------------------------------------------------
(* fetch_messages *)

FlagSets == {{"\\Flagged"}, {"\\Seen"}}

\* the Date headers of the mailbox's messages
FetchDates ==
    {NoDate("absent"),
     [form |-> "rfc822", hasZone |-> TRUE, off |-> 0, wall |-> 1],
     [form |-> "rfc822", hasZone |-> TRUE, off |-> 0, wall |-> MaxWall],
     [form |-> "rfc822", hasZone |-> FALSE, off |-> 0, wall |-> 1],
     [form |-> "free", hasZone |-> FALSE, off |-> 0, wall |-> MaxWall],
     [form |-> "free", hasZone |-> FALSE, off |-> 0, wall |-> 0]}

\* the messages of the mailbox: well-formed ones, and one whose charset
\* Python does not know
FetchContents ==
    {[PlainMessage(<<Word("hola")>>) EXCEPT !.Date = d] : d \in FetchDates}
    \cup {[PlainMessage(<<Word("hola")>>) EXCEPT
              !.Date = [form |-> "rfc822", hasZone |-> TRUE, off |-> 0, wall |-> 1],
              !.charsetOk = FALSE]}

\* the mailbox: its messages in sequence-number order, their UIDs ascending
\* (the sequence numbers, or shifted by one)
Mailboxes ==
    UNION {{[i \in 1..n |-> [uid |-> i + base, flags |-> fl[i], message |-> ms[i]]] :
               fl \in [1..n -> FlagSets], ms \in [1..n -> FetchContents]} :
           n \in 0..MaxMsgs, base \in {0, 1}}

InitFetch ==
    /\ mailbox \in Mailboxes
    /\ limit \in {0, 1}
    /\ pc = "start"
    /\ message_uids = <<>>
    /\ records = <<>>
    /\ error = ""
    /\ fetched = <<>>
    /\ arg = <<>>
    /\ ret = <<>>
    /\ pcall = "idle"
    /\ bs4 = TRUE

\* lines 96-103: select, search and the limit; search returns the sequence
\* numbers of the messages
Search ==
    /\ pc = "start"
    /\ \E status \in {"OK", "NO"} :
          IF status # "OK"
              THEN /\ pc' = "raised"
                   /\ error' = "RuntimeError"
                   /\ UNCHANGED message_uids
              ELSE LET all == [i \in 1..Len(mailbox) |-> i] IN
                   /\ message_uids' =
                          IF limit # 0 /\ Len(all) > limit
                              THEN SubSeq(all, Len(all) - limit + 1, Len(all))
                              ELSE all
                   /\ pc' = "loop"
                   /\ UNCHANGED error
    /\ UNCHANGED <<mailbox, limit, records, fetched, callVars>>

\* lines 106-110: one turn of the loop
FetchSingleMessage ==
    /\ pc = "loop"
    /\ message_uids # <<>>
    /\ LET uid == Head(message_uids) IN
       \E response \in UidFetchResponses(mailbox, uid) :
          LET record == _fetch_single_message(uid, response) IN
          /\ mailbox' = AfterFetch(mailbox, uid, fetch_items)
          /\ IF record.raised # ""
                 THEN /\ pc' = "raised"
                      /\ error' = record.raised
                      /\ UNCHANGED <<message_uids, records, fetched>>
                 ELSE /\ message_uids' = Tail(message_uids)
                      /\ records' = IF record.some THEN Append(records, record.rec)
                                                   ELSE records
                      /\ fetched' = Append(fetched, [uid |-> uid, parsed |-> record.some])
                      /\ UNCHANGED <<pc, error>>
    /\ UNCHANGED <<limit, callVars>>

\* lines 111-112: the sort and the return
SortAndReturn ==
    /\ pc = "loop"
    /\ message_uids = <<>>
    /\ LET sorted == records_sort(records) IN
       IF sorted.raised # ""
           THEN /\ pc' = "raised"
                /\ error' = sorted.raised
                /\ UNCHANGED records
           ELSE /\ pc' = "done"
                /\ records' = sorted.val
                /\ UNCHANGED error
    /\ UNCHANGED <<mailbox, limit, message_uids, fetched, callVars>>

NextFetch == Search \/ FetchSingleMessage \/ SortAndReturn

SpecFetch == InitFetch /\ [][NextFetch]_vars

Unread(r) == r.read_status = "No leído"

\* C1: in the list fetch_messages returns the unread records come before the
\* read ones: no read record precedes an unread one, and the first record is
\* unread when any record is
C1_UnreadFirst ==
    pc = "done" =>
        /\ \A i, j \in 1..Len(records) :
               i < j /\ Unread(records[j]) => Unread(records[i])
        /\ (\E i \in 1..Len(records) : Unread(records[i])) => Unread(records[1])

\* the date a record is ordered by
KeyDate(r) == sort_key(r)[2]

OneRecordPerParsed ==
    /\ Len(records) = Len(SelectSeq(fetched, LAMBDA f : f.parsed))
    /\ {records[i].uid : i \in 1..Len(records)}
           = {fetched[i].uid : i \in {j \in 1..Len(fetched) : fetched[j].parsed}}

\* C6: fetch_messages skips and continues: a message that fails (FETCH not
\* OK, empty response, no raw content, a malformed message) does not abort
\* the processing of the remaining ids, and the returned list holds one
\* record for each message parsed and none for a failed one
C6_SkipAndContinue ==
    /\ pc = "raised" => error \in {"RuntimeError", "TypeError"}
    /\ pc = "done" => OneRecordPerParsed

C10_SortToleratesMix ==
    /\ error # "TypeError"
    /\ pc = "done" => OneRecordPerParsed

====
